---- MODULE Spec2Model ----
(***************************************************************************)
(* A state-machine model of triangle.py: the Vulkan "hello triangle" demo. *)
(* The native library is the environment: every native call that returns a *)
(* result code may return success (TRUE) or a failure code (FALSE).  The   *)
(* program is single threaded (asyncio): the constructor runs to its end,  *)
(* then the event loop interleaves the render task with the window's       *)
(* handlers, which run only while the render task is suspended.            *)
(***************************************************************************)
EXTENDS Integers, Sequences, FiniteSets, TLC

\* ------------------------------------------------------------- bounds
MaxImages  == 2     \* images a swapchain may hold
MaxResizes == 2     \* resize events delivered to the application
MaxFaults  == 1     \* native calls that return a failure code in one run
MaxFormats == 2     \* entries of the surface format list
UIntBits   == 8     \* width of a c_uint (32 in the program; the model narrows it)

\* ------------------------------------------------------------- state
VARIABLES
    pc,            \* the method the main thread is about to run; "loop" = in the event loop
    ctx,           \* "init" (constructor), "resize" (resize_display) or "none"
    faults,        \* native calls that have failed so far
    ignored,       \* native calls whose failure code the last step let pass
    initialized, running, zoom, rotation,
    window, instance, surface, device, cmd_pool, render_pass, pipeline_cache,
    setup_buffer,  \* "None", "allocated" or "recording"
    setupBarriers, \* images whose UNDEFINED -> PRESENT_SRC barrier sits in the setup buffer
    swapchain,     \* Swapchain.swapchain: 0 = None, otherwise the handle (a generation)
    liveSwapchains,\* swapchain handles created and not destroyed
    old_swapchain, \* the old_swapchain of the last SwapchainCreateInfoKHR (0 = null handle)
    frame,         \* the locals of a method called on its own
    req_image_count, \* the argument of create_images, 0 outside the call
    images,        \* len(Swapchain.images)
    imgLayout,     \* layout of each image of the current swapchain
    views,         \* Swapchain.views: [gen, n, alive]
    framebuffers,  \* Application.framebuffers: [gen, n, alive]
    depth_stencil, \* the depth image, its memory and its view are alive
    draw_buffers, post_present_buffers,   \* [gen, n, alive, recorded]
    render_semaphores,                    \* [present, render]: handle is valid
    signalled,                            \* [present, render]: semaphore is signalled
    buffers,       \* device buffers alive
    memory,        \* device memory allocations alive
    copy,          \* the staging copy: "none", "submitted", "idle" (submitted, queue idle)
    uniform,       \* contents of the uniform buffer: the matrices [model, view]
    pipeline_layout, descriptor_pool, descriptor_set,
    pipelines,     \* graphics pipelines alive
    pipelineCalls, \* calls of create_pipeline
    rpc,           \* the render task: "none", "scheduled", "top", "acquired", "post",
                   \* "drawn", "presented", "yield", "raised", "done"
    cb,            \* current_buffer of the frame being drawn
    submits,       \* QueueSubmit calls of the current frame, in order
    sem,           \* per frame: signals and waits of each semaphore
    presented,     \* layout of the image handed to QueuePresentKHR in this frame
    setupOk,       \* every setup barrier found its image in the declared old layout
    resizes        \* resize events delivered so far

ctlVars  == <<pc, ctx, faults, ignored>>
appVars  == <<initialized, running, zoom, rotation>>
coreVars == <<window, instance, surface, device, cmd_pool, render_pass, pipeline_cache>>
setupVars == <<setup_buffer, setupBarriers, setupOk>>
swapVars == <<swapchain, liveSwapchains, old_swapchain, frame, req_image_count, images,
              imgLayout, views>>
fbVars   == <<framebuffers, depth_stencil>>
cmdVars  == <<draw_buffers, post_present_buffers>>
semVars  == <<render_semaphores, signalled>>
triVars  == <<buffers, memory, copy>>
descVars == <<pipeline_layout, descriptor_pool, descriptor_set>>
pipeVars == <<pipelines, pipelineCalls>>
taskVars == <<rpc, cb, submits, sem, presented>>
envVars  == <<resizes>>

vars == <<ctlVars, appVars, coreVars, setupVars, swapVars, fbVars, cmdVars, semVars,
          triVars, uniform, descVars, pipeVars, taskVars, envVars>>

\* ------------------------------------------------------------- helpers
Layouts == {"UNDEFINED", "PRESENT_SRC", "COLOR_ATTACHMENT"}
\* The rotation and the zoom are only ever compared: the value the constructor
\* gives them (lines 787-788) and a value an input handler has given them.
Angles  == {"initial", "changed"}
NoArray == [gen |-> 0, n |-> 0, alive |-> FALSE]
NoCmds  == [gen |-> 0, n |-> 0, alive |-> FALSE, recorded |-> FALSE]
Unwritten == [model |-> "none", view |-> "none"]
NoSem   == [present |-> [signals |-> 0, waits |-> 0], render |-> [signals |-> 0, waits |-> 0]]

Bad(r) == IF r THEN 0 ELSE 1

\* vk.FORMAT_UNDEFINED and vk.FORMAT_B8G8R8A8_UNORM; the formats a surface may
\* list first (37 is R8G8B8A8_UNORM).
FORMAT_UNDEFINED      == 0
FORMAT_B8G8R8A8_UNORM == 44
SurfaceFormats == {FORMAT_UNDEFINED, FORMAT_B8G8R8A8_UNORM, 37}

\* The value a c_uint holds after n is stored in it, which is also what
\* reading a c_uint field of a structure gives: a Python int from 0 up.
c_uint_value(n) == n % (2 ^ UIntBits)

\* `c == n` for a c_uint object c and an int n: ctypes defines no comparison
\* for its simple types, so == is the identity of the two objects.
c_uint_eq(c, n) == FALSE

\* The widths window.dimensions() may return, and those the surface may
\* report: a width, or the all-ones value of an undefined extent.
WindowWidths  == {1, 2}
SurfaceWidths == WindowWidths \cup {c_uint_value(-1)}

NoFrame == [fn |-> "none"]

\* The native library fails n more calls.
Fail(n) == /\ faults + n <= MaxFaults
           /\ faults' = faults + n

\* An exception leaves the constructor (the program ends) or the handler
\* (the event loop goes on).
Raise == /\ pc' = IF ctx = "init" THEN "failed" ELSE "loop"
         /\ ctx' = IF ctx = "init" THEN "init" ELSE "none"

Goto(p) == pc' = p /\ ctx' = ctx

\* The fields before any method has run.
Unconstructed ==
    /\ ctx = "init" /\ faults = 0 /\ ignored = {}
    /\ initialized = FALSE /\ running = FALSE /\ zoom = "initial" /\ rotation = "initial"
    /\ window = FALSE /\ instance = FALSE /\ surface = FALSE /\ device = FALSE
    /\ cmd_pool = FALSE /\ render_pass = FALSE /\ pipeline_cache = FALSE
    /\ setup_buffer = "None" /\ setupBarriers = {} /\ setupOk = TRUE
    /\ swapchain = 0 /\ liveSwapchains = {} /\ old_swapchain = 0
    /\ req_image_count = 0 /\ images = 0
    /\ imgLayout = [i \in 1..MaxImages |-> "UNDEFINED"]
    /\ views = NoArray /\ framebuffers = NoArray /\ depth_stencil = FALSE
    /\ draw_buffers = NoCmds /\ post_present_buffers = NoCmds
    /\ render_semaphores = [present |-> FALSE, render |-> FALSE]
    /\ signalled = [present |-> FALSE, render |-> FALSE]
    /\ buffers = {} /\ memory = {} /\ copy = "none"
    /\ uniform = Unwritten
    /\ pipeline_layout = FALSE /\ descriptor_pool = FALSE /\ descriptor_set = FALSE
    /\ pipelines = 0 /\ pipelineCalls = 0
    /\ rpc = "none" /\ cb = 0 /\ submits = <<>> /\ sem = NoSem
    /\ presented = "none"
    /\ resizes = 0

Init == pc = "Application.__init__" /\ frame = NoFrame /\ Unconstructed

\* ------------------------------------------------- Application.__init__
\* Lines 784-813: the fields take their initial values and the platform
\* window is built; the window's constructor may raise.
Application_init ==
    /\ pc = "Application.__init__"
    /\ \E ok \in BOOLEAN :
        /\ Fail(Bad(ok))
        /\ window' = ok
        /\ IF ok THEN Goto("create_instance") ELSE Raise
    /\ initialized' = FALSE /\ running' = FALSE /\ zoom' = "initial" /\ rotation' = "initial"
    /\ ignored' = {}
    /\ UNCHANGED <<instance, surface, device, cmd_pool, render_pass,
                   pipeline_cache, setupVars, swapVars, fbVars, cmdVars, semVars,
                   triVars, uniform, descVars, pipeVars, taskVars, envVars>>

create_instance ==
    /\ pc = "create_instance"
    /\ \E result \in BOOLEAN :
        /\ Fail(Bad(result))
        /\ instance' = result
        /\ IF result THEN Goto("create_swapchain") ELSE Raise
    /\ ignored' = {}
    /\ UNCHANGED <<appVars, window, surface, device, cmd_pool, render_pass,
                   pipeline_cache, setupVars, swapVars, fbVars, cmdVars, semVars,
                   triVars, uniform, descVars, pipeVars, taskVars, envVars>>

\* Swapchain(self): the platform swapchain object creates the surface.
create_swapchain ==
    /\ pc = "create_swapchain"
    /\ \E ok \in BOOLEAN :
        /\ Fail(Bad(ok))
        /\ surface' = ok
        /\ IF ok THEN Goto("create_device") ELSE Raise
    /\ ignored' = {}
    /\ UNCHANGED <<appVars, window, instance, device, cmd_pool, render_pass,
                   pipeline_cache, setupVars, swapVars, fbVars, cmdVars, semVars,
                   triVars, uniform, descVars, pipeVars, taskVars, envVars>>

\* create_device: the first EnumeratePhysicalDevices is checked (and a count
\* of 0 raises), the second, which fills the array, is not; no queue family,
\* no family that can present, a failed CreateDevice or a null queue raise
\* (lines 292, 311, 329, 371-376, 386-389).
create_device_unchecked(enum1, gpus, families, supported, result, queue) ==
    ~enum1 \/ ~gpus \/ ~families \/ ~supported \/ ~queue

create_device_raises(enum1, gpus, families, supported, result, queue) ==
    ~enum1 \/ ~gpus \/ ~families \/ ~supported \/ ~result \/ ~queue

create_device ==
    /\ pc = "create_device"
    /\ \E enum1, gpus, enum2, families, supported, result, queue \in BOOLEAN :
        LET raised1 == ~enum1 \/ ~gpus
            raised  == create_device_raises(enum1, gpus, families, supported, result, queue)
        IN  /\ raised1 => enum2
            /\ (raised1 \/ ~families \/ ~supported) => result
            /\ Fail(Bad(enum1) + Bad(enum2) + Bad(result))
            /\ ignored' = IF ~raised1 /\ ~enum2
                          THEN {"EnumeratePhysicalDevices"} ELSE {}
            /\ device' = (~raised1 /\ families /\ supported /\ result)
            /\ IF raised THEN Raise ELSE Goto("create_command_pool")
    /\ UNCHANGED <<appVars, window, instance, surface, cmd_pool, render_pass,
                   pipeline_cache, setupVars, swapVars, fbVars, cmdVars, semVars,
                   triVars, uniform, descVars, pipeVars, taskVars, envVars>>

create_command_pool ==
    /\ pc = "create_command_pool"
    /\ \E result \in BOOLEAN :
        /\ Fail(Bad(result))
        /\ cmd_pool' = result
        /\ IF result THEN Goto("create_setup_buffer") ELSE Raise
    /\ ignored' = {}
    /\ UNCHANGED <<appVars, window, instance, surface, device, render_pass,
                   pipeline_cache, setupVars, swapVars, fbVars, cmdVars, semVars,
                   triVars, uniform, descVars, pipeVars, taskVars, envVars>>

\* create_setup_buffer: a setup buffer left over (by a resize that raised) is
\* freed first; then one is allocated and put into the recording state.
create_setup_buffer ==
    /\ pc = "create_setup_buffer"
    /\ \E alloc, begin \in BOOLEAN :
        /\ ~alloc => begin
        /\ Fail(Bad(alloc) + Bad(begin))
        /\ setup_buffer' = IF ~alloc THEN "None"
                           ELSE IF ~begin THEN "allocated" ELSE "recording"
        /\ IF alloc /\ begin THEN Goto("Swapchain.create") ELSE Raise
    /\ setupBarriers' = {}
    /\ ignored' = {}
    /\ UNCHANGED <<appVars, coreVars, setupOk, swapVars, fbVars, cmdVars,
                   semVars, triVars, uniform, descVars, pipeVars, taskVars, envVars>>

\* The step that follows `step`: the constructors (784-831, 1609-1643) and
\* resize_display (756-782, 1488-1498) run the same methods in different orders.
After(step) ==
    CASE step = "Swapchain.create_images" ->
            IF ctx = "init" THEN "create_command_buffers" ELSE "destroy_depth_stencil"
      [] step = "create_command_buffers" ->
            IF ctx = "init" THEN "create_depth_stencil" ELSE "init_command_buffers"
      [] step = "create_depth_stencil" ->
            IF ctx = "init" THEN "create_renderpass" ELSE "destroy_framebuffers"
      [] step = "flush_setup_buffer" ->
            IF ctx = "init" THEN "window.show" ELSE "free_command_buffers"
      [] step = "init_command_buffers" ->
            IF ctx = "init" THEN "run" ELSE "update_uniform_buffers"

\* ------------------------------------------------------------ Swapchain
\* destroy_swapchain: the views of the current array and the current handle.
destroy_swapchain_views == [views EXCEPT !.alive = FALSE]
destroy_swapchain_live  == liveSwapchains \ {swapchain}

\* Lines 102-111: the extent of the swapchain from cap.current_extent.width
\* (read from the structure) and the width of the window.
swapchain_extent(width, dimensions) ==
    IF width = -1 THEN dimensions ELSE width

\* Lines 141-145: the colour format from format_count (a c_uint) and
\* formats[0].format.
color_format(format_count, format) ==
    IF c_uint_eq(format_count, 1) /\ format = FORMAT_UNDEFINED
    THEN FORMAT_B8G8R8A8_UNORM ELSE format

\* Swapchain.create up to line 169.  The capabilities query is checked; the
\* present-mode and format queries raise only when the failing call also
\* reported a count above 0; the calls that fill the arrays are not checked;
\* an empty format list raises at formats[0].  On success the old swapchain,
\* if any, is destroyed and the new handle stored.
Swapchain_create ==
    /\ pc = "Swapchain.create"
    /\ \E cap, prez, prezAny, prez2, fmt, fmtAny, fmt2, result \in BOOLEAN,
          count \in 1..MaxImages :
        LET raisedPrez == ~prez /\ prezAny
            raisedFmt  == ~fmtAny \/ ~fmt
            early      == ~cap \/ raisedPrez
            raised     == early \/ raisedFmt \/ ~result
            new        == swapchain + 1
        IN  /\ ~cap => prez
            /\ prez => prezAny
            /\ early => (prez2 /\ fmt /\ fmtAny)
            /\ (early \/ raisedFmt) => (fmt2 /\ result)
            /\ Fail(Bad(cap) + Bad(prez) + Bad(prez2) + Bad(fmt) + Bad(fmt2) + Bad(result))
            /\ ignored' =
                 (IF cap /\ ~prez /\ ~prezAny
                       THEN {"GetPhysicalDeviceSurfacePresentModesKHR"} ELSE {})
                 \cup (IF ~early /\ ~prez2
                       THEN {"GetPhysicalDeviceSurfacePresentModesKHR (fill)"} ELSE {})
                 \cup (IF ~early /\ ~raisedFmt /\ ~fmt2
                       THEN {"GetPhysicalDeviceSurfaceFormatsKHR (fill)"} ELSE {})
            /\ IF raised
               THEN /\ Raise
                    /\ old_swapchain' = IF early \/ raisedFmt THEN old_swapchain
                                        ELSE swapchain
                    /\ UNCHANGED <<swapchain, liveSwapchains, frame, req_image_count,
                                   images, imgLayout, views>>
               ELSE /\ Goto("Swapchain.create_images")
                    /\ old_swapchain' = swapchain
                    /\ swapchain' = new
                    /\ liveSwapchains' = destroy_swapchain_live \cup {new}
                    /\ views' = destroy_swapchain_views
                    /\ req_image_count' = count
                    /\ imgLayout' = [i \in 1..MaxImages |-> "UNDEFINED"]
                    /\ UNCHANGED <<frame, images>>
    /\ UNCHANGED <<appVars, coreVars, setupVars, fbVars, cmdVars, semVars,
                   triVars, uniform, descVars, pipeVars, taskVars, envVars>>

\* create_images: the count query raises only when it fails and reports a
\* count other than the requested one; the query that fills the array is
\* asserted; each image gets its UNDEFINED -> PRESENT_SRC barrier recorded in
\* the setup buffer and then its view, and a failed view raises.
Swapchain_create_images ==
    /\ pc = "Swapchain.create_images"
    /\ \E result, result2 \in BOOLEAN, image_count \in 0..MaxImages,
          failing \in 0..MaxImages :
        LET raised1 == ~result /\ req_image_count # image_count
            raised  == raised1 \/ ~result2 \/ failing # 0
            made    == IF ~result2 THEN 0
                       ELSE IF failing = 0 THEN image_count ELSE failing - 1
            barred  == IF ~result2 THEN 0
                       ELSE IF failing = 0 THEN image_count ELSE failing
        IN  /\ result => image_count >= 1
            /\ failing <= image_count
            /\ raised1 => result2
            /\ (raised1 \/ ~result2) => failing = 0
            /\ Fail(Bad(result) + Bad(result2) + (IF failing = 0 THEN 0 ELSE 1))
            /\ ignored' = IF ~result /\ ~raised1
                          THEN {"GetSwapchainImagesKHR"} ELSE {}
            /\ IF raised1
               THEN UNCHANGED <<images, views, setupBarriers>>
               ELSE /\ images' = image_count
                    /\ views' = [gen |-> swapchain, n |-> made, alive |-> TRUE]
                    /\ setupBarriers' = 1..barred
            /\ IF raised THEN Raise ELSE Goto(After("Swapchain.create_images"))
    /\ req_image_count' = 0
    /\ UNCHANGED <<appVars, coreVars, setup_buffer, setupOk, swapchain, liveSwapchains,
                   old_swapchain, frame,
                   imgLayout, fbVars, cmdVars, semVars,
                   triVars, uniform, descVars, pipeVars, taskVars, envVars>>

\* ---------------------------------------------------------- Application
\* create_command_buffers: one draw buffer and one post-present buffer per
\* image; both allocations are checked.
create_command_buffers_fixed_count ==
    /\ pc = "create_command_buffers"
    /\ \E draw, post \in BOOLEAN :
        LET fresh == [gen |-> 0, n |-> MaxImages, alive |-> TRUE, recorded |-> FALSE]
        IN  /\ ~draw => post
            /\ Fail(Bad(draw) + Bad(post))
            /\ draw_buffers' = IF draw THEN fresh ELSE draw_buffers
            /\ post_present_buffers' = IF draw /\ post THEN fresh ELSE post_present_buffers
            /\ IF draw /\ post THEN Goto(After("create_command_buffers")) ELSE Raise
    /\ ignored' = {}
    /\ UNCHANGED <<appVars, coreVars, setupVars, swapVars, fbVars, semVars,
                   triVars, uniform, descVars, pipeVars, taskVars, envVars>>

create_command_buffers ==
    /\ pc = "create_command_buffers"
    /\ \E draw, post \in BOOLEAN :
        LET fresh == [gen |-> 0, n |-> images, alive |-> TRUE, recorded |-> FALSE]
        IN  /\ ~draw => post
            /\ Fail(Bad(draw) + Bad(post))
            /\ draw_buffers' = IF draw THEN fresh ELSE draw_buffers
            /\ post_present_buffers' = IF draw /\ post THEN fresh ELSE post_present_buffers
            /\ IF draw /\ post THEN Goto(After("create_command_buffers")) ELSE Raise
    /\ ignored' = {}
    /\ UNCHANGED <<appVars, coreVars, setupVars, swapVars, fbVars, semVars,
                   triVars, uniform, descVars, pipeVars, taskVars, envVars>>

\* create_depth_stencil: no supported depth format (1) raises, and so does a
\* failure of CreateImage (2), AllocateMemory (3), BindImageMemory (4) or
\* CreateImageView (5).
create_depth_stencil ==
    /\ pc = "create_depth_stencil"
    /\ \E failing \in 0..5 :
        /\ Fail(IF failing = 0 THEN 0 ELSE 1)
        /\ depth_stencil' = (failing = 0)
        /\ IF failing = 0 THEN Goto(After("create_depth_stencil")) ELSE Raise
    /\ ignored' = {}
    /\ UNCHANGED <<appVars, coreVars, setupVars, swapVars, framebuffers, cmdVars,
                   semVars, triVars, uniform, descVars, pipeVars, taskVars, envVars>>

create_renderpass ==
    /\ pc = "create_renderpass"
    /\ \E result \in BOOLEAN :
        /\ Fail(Bad(result))
        /\ render_pass' = result
        /\ IF result THEN Goto("create_pipeline_cache") ELSE Raise
    /\ ignored' = {}
    /\ UNCHANGED <<appVars, window, instance, surface, device, cmd_pool,
                   pipeline_cache, setupVars, swapVars, fbVars, cmdVars, semVars,
                   triVars, uniform, descVars, pipeVars, taskVars, envVars>>

create_pipeline_cache ==
    /\ pc = "create_pipeline_cache"
    /\ \E result \in BOOLEAN :
        /\ Fail(Bad(result))
        /\ pipeline_cache' = result
        /\ IF result THEN Goto("create_framebuffers") ELSE Raise
    /\ ignored' = {}
    /\ UNCHANGED <<appVars, window, instance, surface, device, cmd_pool,
                   render_pass, setupVars, swapVars, fbVars, cmdVars, semVars,
                   triVars, uniform, descVars, pipeVars, taskVars, envVars>>

\* create_framebuffers: a new array of len(images) entries, one framebuffer per
\* view; the failing-th CreateFramebuffer raises, leaving the array partly filled.
create_framebuffers ==
    /\ pc = "create_framebuffers"
    /\ \E failing \in 0..images :
        /\ Fail(IF failing = 0 THEN 0 ELSE 1)
        /\ framebuffers' = [gen |-> views.gen,
                            n |-> IF failing = 0 THEN images ELSE failing - 1,
                            alive |-> TRUE]
        /\ IF failing = 0 THEN Goto("flush_setup_buffer") ELSE Raise
    /\ ignored' = {}
    /\ UNCHANGED <<appVars, coreVars, setupVars, swapVars, depth_stencil, cmdVars,
                   semVars, triVars, uniform, descVars, pipeVars, taskVars, envVars>>

\* The barriers of the setup buffer execute: each moves its image from
\* UNDEFINED to PRESENT_SRC.
SetupLayouts == [i \in 1..MaxImages |->
                    IF i \in setupBarriers THEN "PRESENT_SRC" ELSE imgLayout[i]]
SetupFound   == \A i \in setupBarriers : imgLayout[i] = "UNDEFINED"

\* flush_setup_buffer: EndCommandBuffer (1), QueueSubmit (2) and QueueWaitIdle
\* (3) are checked; then the buffer is freed.
flush_setup_buffer ==
    /\ pc = "flush_setup_buffer"
    /\ \E failing \in 0..3 :
        /\ Fail(IF failing = 0 THEN 0 ELSE 1)
        /\ IF failing \in {0, 3}
           THEN /\ imgLayout' = SetupLayouts
                /\ setupOk' = (setupOk /\ SetupFound)
           ELSE UNCHANGED <<imgLayout, setupOk>>
        /\ IF failing = 0
           THEN /\ setup_buffer' = "None"
                /\ setupBarriers' = {}
                /\ Goto(After("flush_setup_buffer"))
           ELSE /\ UNCHANGED <<setup_buffer, setupBarriers>>
                /\ Raise
    /\ ignored' = {}
    /\ UNCHANGED <<appVars, coreVars, swapchain, liveSwapchains, old_swapchain, frame,
                   req_image_count,
                   images, views, fbVars, cmdVars, semVars,
                   triVars, uniform, descVars, pipeVars, taskVars, envVars>>

\* window.show() (831): the window appears; the platform may deliver a size
\* event at once, and resize_display returns at line 757 (not initialized).
window_show ==
    /\ pc = "window.show"
    /\ Goto("create_semaphores")
    /\ ignored' = {}
    /\ UNCHANGED <<faults, appVars, coreVars, setupVars, swapVars, fbVars, cmdVars,
                   semVars, triVars, uniform, descVars, pipeVars, taskVars, envVars>>

resize_display_early ==
    /\ pc = "window.show"
    /\ ~initialized
    /\ resizes < MaxResizes
    /\ resizes' = resizes + 1
    /\ ignored' = {}
    /\ UNCHANGED <<pc, ctx, faults, appVars, coreVars, setupVars, swapVars, fbVars, cmdVars,
                   semVars, triVars, uniform, descVars, pipeVars, taskVars>>

\* -------------------------------------------------- TriangleApplication
\* create_semaphores raises only when neither CreateSemaphore succeeded;
\* otherwise both handles are stored.
create_semaphores ==
    /\ pc = "create_semaphores"
    /\ \E result1, result2 \in BOOLEAN :
        /\ Fail(Bad(result1) + Bad(result2))
        /\ IF ~result1 /\ ~result2
           THEN /\ Raise
                /\ UNCHANGED render_semaphores /\ ignored' = {}
           ELSE /\ render_semaphores' = [present |-> result1, render |-> result2]
                /\ ignored' = IF result1 /\ result2 THEN {}
                              ELSE {"CreateSemaphore"}
                /\ Goto("create_triangle")
    /\ UNCHANGED <<appVars, coreVars, setupVars, swapVars, fbVars, cmdVars, signalled,
                   triVars, uniform, descVars, pipeVars, taskVars, envVars>>

\* create_triangle, lines 958-1037.  The native calls in order; every result
\* is checked (raise or assert):
\*   1 CreateBuffer (vertex staging)   2 AllocateMemory  3 MapMemory  4 BindBufferMemory
\*   5 CreateBuffer (vertex)           6 AllocateMemory  7 BindBufferMemory
\*   8 CreateBuffer (index staging)    9 AllocateMemory 10 MapMemory 11 BindBufferMemory
\*  12 CreateBuffer (index)           13 AllocateMemory 14 BindBufferMemory
TriangleBuffers == [stage_vertex |-> 1, vertex |-> 5, stage_index |-> 8, index |-> 12]
Staging == {"stage_vertex", "stage_index"}

create_triangle ==
    /\ pc = "create_triangle"
    /\ \E failing \in 0..14 :
        LET done(call) == failing = 0 \/ call < failing
        IN  /\ Fail(IF failing = 0 THEN 0 ELSE 1)
            /\ buffers' = buffers \cup
                    {b \in DOMAIN TriangleBuffers : done(TriangleBuffers[b])}
            /\ memory' = memory \cup
                    {b \in DOMAIN TriangleBuffers : done(TriangleBuffers[b] + 1)}
            /\ IF failing = 0 THEN Goto("create_triangle.copy") ELSE Raise
    /\ ignored' = {}
    /\ UNCHANGED <<appVars, coreVars, setupVars, swapVars, fbVars, cmdVars,
                   semVars, copy, uniform, descVars, pipeVars, taskVars, envVars>>

\* Lines 1039-1086: the copy command buffer is allocated (1), begun (2), ended
\* (3) and submitted (4), and the queue is waited for (5); all are asserted.
\* The state of the copy when the block ends: submitted and waited for,
\* submitted only (the wait failed), or not submitted.
CopyAfter_nowait(failing) ==
    IF failing \in {0, 5} THEN "submitted" ELSE "none"

CopyAfter(failing) ==
    IF failing = 0 THEN "idle" ELSE IF failing = 5 THEN "submitted" ELSE "none"

create_triangle_copy ==
    /\ pc = "create_triangle.copy"
    /\ \E failing \in 0..5 :
        /\ Fail(IF failing = 0 THEN 0 ELSE 1)
        /\ copy' = CopyAfter(failing)
        /\ IF failing = 0 THEN Goto("create_triangle.free") ELSE Raise
    /\ ignored' = {}
    /\ UNCHANGED <<appVars, coreVars, setupVars, swapVars, fbVars, cmdVars,
                   semVars, buffers, memory, uniform, descVars, pipeVars, taskVars,
                   envVars>>

\* Lines 1088-1097: the copy command buffer, the staging buffers and their
\* memory are released.
create_triangle_free ==
    /\ pc = "create_triangle.free"
    /\ buffers' = buffers \ Staging
    /\ memory' = memory \ Staging
    /\ Goto("create_uniform_buffers")
    /\ ignored' = {}
    /\ UNCHANGED <<faults, appVars, coreVars, setupVars, swapVars, fbVars,
                   cmdVars, semVars, copy, uniform, descVars, pipeVars, taskVars, envVars>>

\* The three matrices update_uniform_buffers computes: the model matrix from
\* the rotation, the view matrix from the zoom.
Matrices(rot, z) == [model |-> rot, view |-> z]

\* update_uniform_buffers: the result of MapMemory is not looked at.  When the
\* mapping succeeds the matrices are copied into the uniform memory; when it
\* fails the copy goes to an address that is not the uniform memory.
update_uniform_buffers(rot, z, map) ==
    IF map THEN Matrices(rot, z) ELSE uniform

\* What a copy to an unmapped address does: the process dies, the copy raises
\* (an access violation turned into OSError), or it lands in other memory.
StrayCopy == {"crash", "raise", "stray"}

\* The control flow after update_uniform_buffers, which ends its caller.
AfterUniform(map, stray, next) ==
    /\ ignored' = IF ~map /\ stray = "stray" THEN {"MapMemory"} ELSE {}
    /\ IF map \/ stray = "stray" THEN next
       ELSE IF stray = "raise" THEN Raise
       ELSE pc' = "crashed" /\ ctx' = ctx

\* create_uniform_buffers: CreateBuffer (1), AllocateMemory (2) and
\* BindBufferMemory (3) are checked; then update_uniform_buffers runs.
create_uniform_buffers ==
    /\ pc = "create_uniform_buffers"
    /\ \E failing \in 0..3, map \in BOOLEAN, stray \in StrayCopy :
        /\ failing # 0 => map
        /\ map => stray = "crash"
        /\ Fail((IF failing = 0 THEN 0 ELSE 1) + Bad(map))
        /\ buffers' = IF failing # 1 THEN buffers \cup {"uniform"} ELSE buffers
        /\ memory' = IF failing \in {0, 3} THEN memory \cup {"uniform"} ELSE memory
        /\ IF failing # 0
           THEN Raise /\ UNCHANGED uniform /\ ignored' = {}
           ELSE /\ uniform' = update_uniform_buffers(rotation, zoom, map)
                /\ AfterUniform(map, stray, Goto("create_descriptor_set_layout"))
    /\ UNCHANGED <<appVars, coreVars, setupVars, swapVars, fbVars, cmdVars,
                   semVars, copy, descVars, pipeVars, taskVars, envVars>>

\* create_descriptor_set_layout: CreateDescriptorSetLayout is checked, the
\* result of CreatePipelineLayout is not.
create_descriptor_set_layout ==
    /\ pc = "create_descriptor_set_layout"
    /\ \E result, result2 \in BOOLEAN :
        /\ ~result => result2
        /\ Fail(Bad(result) + Bad(result2))
        /\ IF ~result
           THEN Raise /\ UNCHANGED pipeline_layout /\ ignored' = {}
           ELSE /\ pipeline_layout' = result2
                /\ ignored' = IF result2 THEN {}
                              ELSE {"CreatePipelineLayout"}
                /\ Goto("create_pipeline")
    /\ UNCHANGED <<appVars, coreVars, setupVars, swapVars, fbVars, cmdVars, semVars,
                   triVars, uniform, descriptor_pool, descriptor_set, pipeVars, taskVars,
                   envVars>>

\* create_pipeline: the two shaders are loaded (1, 2: a missing file or a
\* failed CreateShaderModule raises) and CreateGraphicsPipelines (3) is checked.
create_pipeline ==
    /\ pc = "create_pipeline"
    /\ \E failing \in 0..3 :
        /\ Fail(IF failing = 0 THEN 0 ELSE 1)
        /\ pipelineCalls' = pipelineCalls + 1
        /\ pipelines' = IF failing = 0 THEN pipelines + 1 ELSE pipelines
        /\ IF failing = 0 THEN Goto("create_descriptor_pool") ELSE Raise
    /\ ignored' = {}
    /\ UNCHANGED <<appVars, coreVars, setupVars, swapVars, fbVars, cmdVars,
                   semVars, triVars, uniform, descVars, taskVars, envVars>>

\* create_descriptor_pool: the result of CreateDescriptorPool is not looked at.
create_descriptor_pool ==
    /\ pc = "create_descriptor_pool"
    /\ \E result \in BOOLEAN :
        /\ Fail(Bad(result))
        /\ descriptor_pool' = result
        /\ ignored' = IF result THEN {} ELSE {"CreateDescriptorPool"}
        /\ Goto("create_descriptor_set")
    /\ UNCHANGED <<appVars, coreVars, setupVars, swapVars, fbVars, cmdVars, semVars,
                   triVars, uniform, pipeline_layout, descriptor_set, pipeVars, taskVars,
                   envVars>>

create_descriptor_set ==
    /\ pc = "create_descriptor_set"
    /\ \E result \in BOOLEAN :
        /\ Fail(Bad(result))
        /\ descriptor_set' = result
        /\ IF result THEN Goto("init_command_buffers") ELSE Raise
    /\ ignored' = {}
    /\ UNCHANGED <<appVars, coreVars, setupVars, swapVars, fbVars, cmdVars,
                   semVars, triVars, uniform, pipeline_layout, descriptor_pool, pipeVars,
                   taskVars, envVars>>

\* init_command_buffers: every post-present buffer is recorded with the
\* barrier PRESENT_SRC -> COLOR_ATTACHMENT on its image, then every draw buffer
\* with the render pass on its framebuffer and the barrier COLOR_ATTACHMENT ->
\* PRESENT_SRC on its image.  Begin/EndCommandBuffer are asserted: failing = 1
\* ends the method in the first loop, failing = 2 in the second.
Recorded(cmds) == [cmds EXCEPT !.gen = swapchain, !.recorded = TRUE]

init_command_buffers ==
    /\ pc = "init_command_buffers"
    /\ \E failing \in 0..2 :
        /\ Fail(IF failing = 0 THEN 0 ELSE 1)
        /\ post_present_buffers' = IF failing = 1 THEN post_present_buffers
                                   ELSE Recorded(post_present_buffers)
        /\ draw_buffers' = IF failing = 0 THEN Recorded(draw_buffers) ELSE draw_buffers
        /\ IF failing = 0 THEN Goto(After("init_command_buffers")) ELSE Raise
    /\ ignored' = {}
    /\ UNCHANGED <<appVars, coreVars, setupVars, swapVars, fbVars, semVars,
                   triVars, uniform, descVars, pipeVars, taskVars, envVars>>

\* main: app.run() schedules the render task and sets initialized; then the
\* event loop runs forever.
run ==
    /\ pc = "run"
    /\ rpc' = "scheduled"
    /\ initialized' = TRUE
    /\ pc' = "loop" /\ ctx' = "none"
    /\ ignored' = {}
    /\ UNCHANGED <<faults, running, zoom, rotation, coreVars, setupVars, swapVars,
                   fbVars, cmdVars, semVars, triVars, uniform, descVars, pipeVars,
                   cb, submits, sem, presented, envVars>>

\* ------------------------------------------------------ the render task
\* render() up to the loop: running becomes True.
render_start ==
    /\ pc = "loop" /\ rpc = "scheduled"
    /\ running' = TRUE
    /\ rpc' = "top"
    /\ ignored' = {}
    /\ UNCHANGED <<pc, ctx, faults, initialized, zoom, rotation, coreVars, setupVars, swapVars,
                   fbVars, cmdVars, semVars, triVars, uniform, descVars, pipeVars,
                   cb, submits, sem, presented, envVars>>

\* The indices AcquireNextImageKHR may return: those of the images of the
\* swapchain whose handle is stored.
ImageRange == IF views.gen = swapchain THEN 1..images ELSE 1..MaxImages

\* A command buffer can be executed: it is allocated, recorded, and the image
\* its barrier names belongs to the live swapchain.
ValidPost == /\ post_present_buffers.alive /\ post_present_buffers.recorded
             /\ post_present_buffers.gen = swapchain
\* The draw buffers also name the framebuffer of their index.
ValidDraw == /\ draw_buffers.alive /\ draw_buffers.recorded
             /\ draw_buffers.gen = swapchain
             /\ framebuffers.alive /\ framebuffers.gen = draw_buffers.gen
             /\ cb <= framebuffers.n /\ depth_stencil

\* The entry QueueSubmit adds to the queue: the buffer, the semaphores waited
\* for, whether the buffer can be executed, and whether its barrier found the
\* image in the layout it declares as the old one.
Submission(buffer, waits, valid, old) ==
    [buffer |-> buffer, waits |-> waits, valid |-> valid,
     found |-> valid /\ imgLayout[cb] = old]

\* The SubmitInfo of the post-present buffer (1521-1525) names no semaphore.
PostSubmitInfo == [waits |-> {}, signals |-> {}]

\* The SubmitInfo of the draw buffer (1534-1552) waits for the present
\* semaphore and signals the render semaphore.
DrawSubmitInfo_nosignal == [waits |-> {"present"}, signals |-> {}]

DrawSubmitInfo == [waits |-> {"present"}, signals |-> {"render"}]

\* The semaphores after a submission: those waited for are unsignalled, those
\* signalled are signalled.
AfterSubmit(info) ==
    [s \in {"present", "render"} |->
        IF s \in info.signals THEN TRUE
        ELSE IF s \in info.waits THEN FALSE ELSE signalled[s]]
Counted(info) ==
    [s \in {"present", "render"} |->
        [signals |-> sem[s].signals + (IF s \in info.signals THEN 1 ELSE 0),
         waits   |-> sem[s].waits + (IF s \in info.waits THEN 1 ELSE 0)]]

Executed(valid, new) == IF valid THEN [imgLayout EXCEPT ![cb] = new] ELSE imgLayout

\* The condition of the loop (1585).
LoopCondition == running

\* One iteration begins (1585-1589) and draw() acquires the next image
\* (1507-1518).  The DeviceWaitIdle of line 1589 is not checked; the
\* acquisition is, and signals the present semaphore.
draw_acquire ==
    /\ pc = "loop" /\ rpc \in {"top", "yield"} /\ LoopCondition
    /\ \E wait, result \in BOOLEAN, index \in ImageRange :
        /\ ~result => index = 1
        /\ Fail(Bad(wait) + Bad(result))
        /\ ignored' = IF wait THEN {} ELSE {"DeviceWaitIdle"}
        /\ IF result
           THEN /\ cb' = index
                /\ signalled' = [signalled EXCEPT !.present = TRUE]
                /\ sem' = [sem EXCEPT !.present.signals = @ + 1]
                /\ rpc' = "acquired"
           ELSE /\ rpc' = "raised"
                /\ UNCHANGED <<cb, signalled, sem>>
    /\ UNCHANGED <<pc, ctx, appVars, coreVars, setupVars, swapVars, fbVars, cmdVars,
                   render_semaphores, triVars, uniform, descVars, pipeVars, submits,
                   presented, envVars>>

\* draw(), 1520-1527: the post-present buffer of the image is submitted with
\* no semaphore, and the queue is waited for; both calls are asserted.
draw_post_present ==
    /\ pc = "loop" /\ rpc = "acquired"
    /\ \E submit, idle \in BOOLEAN :
        LET indexed == cb <= post_present_buffers.n
            queued  == indexed /\ submit
        IN  /\ (~indexed \/ ~submit) => idle
            /\ ~indexed => submit
            /\ Fail(Bad(submit) + Bad(idle))
            /\ submits' = IF queued
                          THEN Append(submits,
                                      Submission("post_present", PostSubmitInfo.waits, ValidPost,
                                                 "PRESENT_SRC"))
                          ELSE submits
            /\ imgLayout' = IF queued THEN Executed(ValidPost, "COLOR_ATTACHMENT")
                            ELSE imgLayout
            /\ signalled' = IF queued THEN AfterSubmit(PostSubmitInfo) ELSE signalled
            /\ sem' = IF queued THEN Counted(PostSubmitInfo) ELSE sem
            /\ rpc' = IF queued /\ idle THEN "post" ELSE "raised"
    /\ ignored' = {}
    /\ UNCHANGED <<pc, ctx, appVars, coreVars, setupVars, swapchain,
                   liveSwapchains, old_swapchain, frame, req_image_count, images, views,
                   fbVars, cmdVars,
                   render_semaphores, triVars, uniform, descVars, pipeVars, cb,
                   presented, envVars>>

\* draw(), 1532-1555: the draw buffer of the image is submitted; it waits for
\* the present semaphore and signals the render semaphore.
draw_submit ==
    /\ pc = "loop" /\ rpc = "post"
    /\ \E submit \in BOOLEAN :
        LET indexed == cb <= draw_buffers.n
            queued  == indexed /\ submit
        IN  /\ ~indexed => submit
            /\ Fail(Bad(submit))
            /\ IF queued
               THEN /\ submits' = Append(submits,
                           Submission("draw", DrawSubmitInfo.waits, ValidDraw,
                                      "COLOR_ATTACHMENT"))
                    /\ imgLayout' = Executed(ValidDraw, "PRESENT_SRC")
                    /\ signalled' = AfterSubmit(DrawSubmitInfo)
                    /\ sem' = Counted(DrawSubmitInfo)
                    /\ rpc' = "drawn"
               ELSE /\ rpc' = "raised"
                    /\ UNCHANGED <<submits, imgLayout, signalled, sem>>
    /\ ignored' = {}
    /\ UNCHANGED <<pc, ctx, appVars, coreVars, setupVars, swapchain,
                   liveSwapchains, old_swapchain, frame, req_image_count, images, views,
                   fbVars, cmdVars,
                   render_semaphores, triVars, uniform, descVars, pipeVars, cb,
                   presented, envVars>>

\* draw(), 1557-1571: the image is presented, waiting for the render
\* semaphore; the result is checked.
draw_present ==
    /\ pc = "loop" /\ rpc = "drawn"
    /\ \E result \in BOOLEAN :
        /\ Fail(Bad(result))
        /\ IF result
           THEN /\ signalled' = [signalled EXCEPT !.render = FALSE]
                /\ sem' = [sem EXCEPT !.render.waits = @ + 1]
                /\ presented' = imgLayout[cb]
                /\ rpc' = "presented"
           ELSE /\ rpc' = "raised"
                /\ UNCHANGED <<signalled, sem, presented>>
    /\ ignored' = {}
    /\ UNCHANGED <<pc, ctx, appVars, coreVars, setupVars, swapVars, fbVars,
                   cmdVars, render_semaphores, triVars, uniform, descVars, pipeVars, cb,
                   submits, envVars>>

\* The rest of the iteration, 1591-1604: the DeviceWaitIdle is not checked;
\* the frame is counted and the task yields to the event loop.
render_yield ==
    /\ pc = "loop" /\ rpc = "presented"
    /\ \E wait \in BOOLEAN :
        /\ Fail(Bad(wait))
        /\ ignored' = IF wait THEN {} ELSE {"DeviceWaitIdle"}
    /\ rpc' = "yield"
    /\ cb' = 0 /\ submits' = <<>> /\ sem' = NoSem /\ presented' = "none"
    /\ UNCHANGED <<pc, ctx, appVars, coreVars, setupVars, swapVars, fbVars, cmdVars,
                   semVars, triVars, uniform, descVars, pipeVars, envVars>>

render_done_unconditional ==
    /\ pc = "loop" /\ rpc = "yield"
    /\ rpc' = "done"
    /\ ignored' = {}
    /\ UNCHANGED <<pc, ctx, faults, appVars, coreVars, setupVars, swapVars, fbVars, cmdVars,
                   semVars, triVars, uniform, descVars, pipeVars, cb, submits,
                   sem, presented, envVars>>

\* The loop condition is false when the task resumes: rendering_done is set.
render_done ==
    /\ pc = "loop" /\ rpc = "yield" /\ ~LoopCondition
    /\ rpc' = "done"
    /\ ignored' = {}
    /\ UNCHANGED <<pc, ctx, faults, appVars, coreVars, setupVars, swapVars, fbVars, cmdVars,
                   semVars, triVars, uniform, descVars, pipeVars, cb, submits,
                   sem, presented, envVars>>

\* ---------------------------------------------------------- the handlers
\* The window's handlers run from the event loop, while the render task is
\* not running: before its first step, at its await, or after it has ended.
Suspended == pc = "loop" /\ rpc \in {"scheduled", "yield", "raised", "done"}

\* resize_display, 1488-1492 and 756-760: the handler begins.
resize_display ==
    /\ Suspended
    /\ initialized
    /\ resizes < MaxResizes
    /\ resizes' = resizes + 1
    /\ pc' = "create_setup_buffer" /\ ctx' = "resize"
    /\ ignored' = {}
    /\ UNCHANGED <<faults, appVars, coreVars, setupVars, swapVars, fbVars,
                   cmdVars, semVars, triVars, uniform, descVars, pipeVars, taskVars>>

\* resize_display, 766-768.
destroy_depth_stencil ==
    /\ pc = "destroy_depth_stencil"
    /\ depth_stencil' = FALSE
    /\ Goto("create_depth_stencil")
    /\ ignored' = {}
    /\ UNCHANGED <<faults, appVars, coreVars, setupVars, swapVars, framebuffers,
                   cmdVars, semVars, triVars, uniform, descVars, pipeVars, taskVars,
                   envVars>>

\* resize_display, 771-772.
destroy_framebuffers ==
    /\ pc = "destroy_framebuffers"
    /\ framebuffers' = [framebuffers EXCEPT !.alive = FALSE]
    /\ Goto("create_framebuffers")
    /\ ignored' = {}
    /\ UNCHANGED <<faults, appVars, coreVars, setupVars, swapVars, depth_stencil,
                   cmdVars, semVars, triVars, uniform, descVars, pipeVars, taskVars,
                   envVars>>

\* resize_display, 779-781.
free_command_buffers ==
    /\ pc = "free_command_buffers"
    /\ draw_buffers' = [draw_buffers EXCEPT !.alive = FALSE]
    /\ post_present_buffers' = [post_present_buffers EXCEPT !.alive = FALSE]
    /\ Goto("create_command_buffers")
    /\ ignored' = {}
    /\ UNCHANGED <<faults, appVars, coreVars, setupVars, swapVars, fbVars,
                   semVars, triVars, uniform, descVars, pipeVars, taskVars, envVars>>

resize_display_end_new_pipeline ==
    /\ pc = "update_uniform_buffers"
    /\ \E wait, map \in BOOLEAN :
        /\ Fail(Bad(wait) + Bad(map))
        /\ uniform' = update_uniform_buffers(rotation, zoom, map)
    /\ pipelines' = pipelines + 1 /\ pipelineCalls' = pipelineCalls + 1
    /\ pc' = "loop" /\ ctx' = "none"
    /\ ignored' = {}
    /\ UNCHANGED <<appVars, coreVars, setupVars, swapVars, fbVars, cmdVars, semVars,
                   triVars, descVars, taskVars, envVars>>

\* resize_display, 1495-1498: QueueWaitIdle and DeviceWaitIdle are not checked;
\* then the uniform buffer is rewritten and the handler returns.
resize_display_end ==
    /\ pc = "update_uniform_buffers"
    /\ \E wait, map \in BOOLEAN, stray \in StrayCopy :
        /\ map => stray = "crash"
        /\ Fail(Bad(wait) + Bad(map))
        /\ uniform' = update_uniform_buffers(rotation, zoom, map)
        /\ IF map \/ stray = "stray"
           THEN pc' = "loop" /\ ctx' = "none"
           ELSE IF stray = "raise" THEN Raise
           ELSE pc' = "crashed" /\ ctx' = ctx
        /\ ignored' =
                 (IF wait THEN {} ELSE {"QueueWaitIdle"})
              \cup (IF ~map /\ stray = "stray" THEN {"MapMemory"} ELSE {})
    /\ UNCHANGED <<appVars, coreVars, setupVars, swapVars, fbVars, cmdVars, semVars,
                   triVars, descVars, pipeVars, taskVars, envVars>>

\* The window's input handlers change the rotation or the zoom and call
\* update_uniform_buffers.
user_input ==
    /\ Suspended
    /\ \E rot \in Angles, z \in Angles, map \in BOOLEAN, stray \in StrayCopy :
        /\ <<rot, z>> # <<rotation, zoom>>
        /\ map => stray = "crash"
        /\ Fail(Bad(map))
        /\ rotation' = rot /\ zoom' = z
        /\ uniform' = update_uniform_buffers(rot, z, map)
        /\ IF ~map /\ stray = "crash"
           THEN pc' = "crashed" /\ ctx' = ctx
           ELSE UNCHANGED <<pc, ctx>>
        /\ ignored' = IF ~map /\ stray = "stray" THEN {"MapMemory"}
                      ELSE {}
    /\ UNCHANGED <<initialized, running, coreVars, setupVars, swapVars, fbVars, cmdVars,
                   semVars, triVars, descVars, pipeVars, taskVars, envVars>>

\* The window is closed: running becomes False.
stop ==
    /\ Suspended
    /\ running
    /\ running' = FALSE
    /\ ignored' = {}
    /\ UNCHANGED <<pc, ctx, faults, initialized, zoom, rotation, coreVars, setupVars, swapVars,
                   fbVars, cmdVars, semVars, triVars, uniform, descVars, pipeVars,
                   taskVars, envVars>>

\* __del__ of TriangleApplication (1645-1667) and of Application (833-882):
\* every object is destroyed.
del ==
    /\ Suspended
    /\ pc' = "freed" /\ ctx' = ctx
    /\ pipelines' = 0
    /\ buffers' = {} /\ memory' = {}
    /\ pipeline_layout' = FALSE /\ descriptor_pool' = FALSE /\ descriptor_set' = FALSE
    /\ render_semaphores' = [present |-> FALSE, render |-> FALSE]
    /\ views' = destroy_swapchain_views
    /\ liveSwapchains' = destroy_swapchain_live
    /\ draw_buffers' = [draw_buffers EXCEPT !.alive = FALSE]
    /\ post_present_buffers' = [post_present_buffers EXCEPT !.alive = FALSE]
    /\ framebuffers' = [framebuffers EXCEPT !.alive = FALSE]
    /\ depth_stencil' = FALSE
    /\ render_pass' = FALSE /\ pipeline_cache' = FALSE /\ cmd_pool' = FALSE
    /\ device' = FALSE /\ instance' = FALSE /\ surface' = FALSE
    /\ ignored' = {}
    /\ UNCHANGED <<faults, appVars, window, setupVars, swapchain, old_swapchain, frame,
                   req_image_count, images, imgLayout, signalled, copy, uniform,
                   pipelineCalls, taskVars, envVars>>

Next == \/ Application_init \/ create_instance \/ create_swapchain \/ create_device
        \/ create_command_pool \/ create_setup_buffer
        \/ Swapchain_create \/ Swapchain_create_images
        \/ create_command_buffers \/ create_depth_stencil \/ create_renderpass
        \/ create_pipeline_cache \/ create_framebuffers \/ flush_setup_buffer
        \/ window_show \/ resize_display_early
        \/ create_semaphores \/ create_triangle \/ create_triangle_copy
        \/ create_triangle_free \/ create_uniform_buffers
        \/ create_descriptor_set_layout \/ create_pipeline \/ create_descriptor_pool
        \/ create_descriptor_set \/ init_command_buffers \/ run
        \/ render_start \/ draw_acquire \/ draw_post_present \/ draw_submit
        \/ draw_present \/ render_yield \/ render_done
        \/ resize_display \/ destroy_depth_stencil \/ destroy_framebuffers
        \/ free_command_buffers \/ resize_display_end
        \/ user_input \/ stop \/ del

Spec == Init /\ [][Next]_vars

\* The event loop runs a task that is ready (asyncio.sleep(0) makes the render
\* task ready again at once), and the main thread runs a constructor or a
\* handler it has begun to its end.
RenderTask == \/ render_start \/ draw_acquire \/ draw_post_present \/ draw_submit
              \/ draw_present \/ render_yield \/ render_done
MainThread == pc \notin {"loop", "failed", "crashed", "freed"} /\ Next

FairSpec == Spec /\ WF_vars(RenderTask) /\ WF_vars(MainThread)

\* ------------------------------------------------------------- properties
Drawing == rpc \in {"acquired", "post", "drawn", "presented"}

\* C1: every native call that returns a result code has the code checked, and
\* a non-success result raises instead of letting the program go on: no step
\* lets a failure code pass.
C1_EveryResultChecked == ignored = {}

\* C2: the window is created before the instance, the instance before the
\* device, the device before the swapchain, the swapchain before the pipeline;
\* a frame is drawn only when all five exist; and once the constructor has
\* failed the render task is never scheduled, so nothing is drawn.
C2_InitOrder ==
    /\ instance => window
    /\ device => instance
    /\ liveSwapchains # {} => device
    /\ pipelines > 0 => liveSwapchains # {}
    /\ Drawing => /\ window /\ instance /\ device
                  /\ liveSwapchains # {} /\ pipelines > 0
    /\ pc = "failed" => rpc = "none"
    /\ pc \in {"failed", "crashed"} /\ ctx = "init" => ~initialized

C2_FrameAfterInit ==
    /\ rpc = "presented" /\ resizes = 0
    /\ window /\ instance /\ device /\ liveSwapchains = {1} /\ pipelines = 1

\* C3 as stated: while running is true the render loop never stops on its own.
C3_NeverStops == running => rpc # "raised"

\* C3, amended: every yield of the render task follows one complete draw (one
\* acquisition, the two submissions, one presentation), a draw begins only at
\* the top of an iteration, the task ends only because running is false or
\* because draw() raised, and while running is true and draw() does not raise
\* the next draw follows every yield.
C3_OneDrawPerIteration ==
    /\ [][rpc' = "yield" /\ rpc # "yield" =>
            /\ rpc = "presented"
            /\ Len(submits) = 2 /\ presented # "none"
            /\ sem.present.signals = 1 /\ sem.render.waits = 1]_vars
    /\ [][rpc' = "acquired" /\ rpc # "acquired" => rpc \in {"top", "yield"}]_vars
    /\ [][rpc' = "done" /\ rpc # "done" => rpc = "yield" /\ ~running]_vars
    /\ [][rpc' = "raised" /\ rpc # "raised" =>
            rpc \in {"top", "yield", "acquired", "post", "drawn"}]_vars
    /\ (rpc = "yield" /\ running) ~>
            (rpc \in {"acquired", "raised"} \/ ~running \/ pc \in {"crashed", "freed"})

C3_SecondFrame == rpc = "yield" /\ running /\ pc = "loop"

\* C4: every frame is drawn with the matrices of the current rotation and zoom.
C4_CurrentTransform == Drawing => uniform = Matrices(rotation, zoom)

\* C5: the staging buffers and their memory are alive until the copy has been
\* submitted and the queue is idle, they are released only then, and when
\* create_triangle returns the vertex and the index buffer are the only
\* buffers and allocations alive.
C5_StagingUpload ==
    /\ pc = "create_triangle.copy" => Staging \subseteq buffers /\ Staging \subseteq memory
    /\ pc = "create_triangle.free" =>
            copy = "idle" /\ Staging \subseteq buffers /\ Staging \subseteq memory
    /\ ("vertex" \in memory /\ "index" \in memory /\ Staging \cap (buffers \cup memory) = {})
            => copy = "idle"
    /\ pc = "create_uniform_buffers" =>
            buffers = {"vertex", "index"} /\ memory = {"vertex", "index"}

C5_TriangleUploaded ==
    pc = "create_uniform_buffers" /\ copy = "idle" /\ buffers = {"vertex", "index"}

\* C6: from the end of initialization until destruction there is exactly one
\* graphics pipeline and create_pipeline has run once, whatever resizes happen.
C6_OnePipeline ==
    /\ pipelineCalls <= 1
    /\ initialized /\ pc # "freed" => pipelines = 1 /\ pipelineCalls = 1

C6_AfterResize ==
    initialized /\ pc = "loop" /\ resizes = 1 /\ swapchain = 2 /\ pipelines = 1

\* C7: every barrier that executes finds its image in the layout it declares
\* as the old one, and an image is in PRESENT_SRC when it is presented.
C7_LayoutCycle ==
    /\ setupOk
    /\ \A i \in DOMAIN submits : submits[i].found
    /\ presented \in {"none", "PRESENT_SRC"}

C9_EverySubmitWaits == \A i \in DOMAIN submits : "present" \in submits[i].waits

\* C10: every command buffer draw() submits is allocated, recorded for the
\* current swapchain, and names a framebuffer and an image that exist.
C10_SubmitsValid == \A i \in DOMAIN submits : submits[i].valid
\* C11: when the constructor has built everything, when a resize has run to
\* its last step, and whenever the command buffers and the framebuffers are
\* all those of the current swapchain, there are as many draw buffers,
\* post-present buffers and framebuffers as the swapchain has images.
C11_OnePerImage ==
    LET counts == {draw_buffers.n, post_present_buffers.n, framebuffers.n}
        rebuilt == /\ draw_buffers.gen = swapchain /\ draw_buffers.alive
                   /\ post_present_buffers.gen = swapchain /\ post_present_buffers.alive
                   /\ framebuffers.gen = swapchain /\ framebuffers.alive
    IN  /\ pc \in {"run", "update_uniform_buffers"} => rebuilt /\ images >= 1
        /\ (initialized /\ resizes = 0 /\ pc = "loop") => rebuilt
        /\ rebuilt => counts = {images}

C11_ResizeCompleted ==
    /\ pc = "update_uniform_buffers" /\ ctx = "resize" /\ swapchain = 2
    /\ draw_buffers.n = images /\ framebuffers.n = images
\* C12: whenever Swapchain.create replaces an existing swapchain, the handle
\* that existed was passed as old_swapchain, the old views are destroyed for
\* the first and only time, the old swapchain is destroyed, and the new one is
\* the only swapchain alive; never are two swapchains alive.
C12_OldSwapchainReplaced ==
    /\ [][(swapchain' # swapchain /\ swapchain # 0) =>
            /\ old_swapchain' = swapchain
            /\ views.alive /\ ~views'.alive
            /\ swapchain \in liveSwapchains
            /\ liveSwapchains' = {swapchain'}]_vars
    /\ [](Cardinality(liveSwapchains) <= 1)
\* The queries of Swapchain.create and Swapchain.create_images whose result a
\* step may let pass.
SwapchainQueries ==
    {"GetPhysicalDeviceSurfaceCapabilitiesKHR",
     "GetPhysicalDeviceSurfacePresentModesKHR",
     "GetPhysicalDeviceSurfacePresentModesKHR (fill)",
     "GetPhysicalDeviceSurfaceFormatsKHR",
     "GetPhysicalDeviceSurfaceFormatsKHR (fill)",
     "GetSwapchainImagesKHR"}

\* C13: Swapchain.create and Swapchain.create_images raise whenever one of
\* their queries returns a non-success code, whatever count it reports: no
\* failed query is let pass.
C13_QueriesRaise == ignored \cap SwapchainQueries = {}
\* C14: create_semaphores raises when either CreateSemaphore fails and then
\* stores neither handle: the constructor never goes on after a failed
\* creation, and render_semaphores never holds one valid and one invalid handle.
C14_SemaphoresChecked ==
    /\ "CreateSemaphore" \notin ignored
    /\ render_semaphores.present <=> render_semaphores.render
\* ------------------------------------------------- methods called on their own
\* The part of Swapchain.create and the method set_image_layout that compute
\* values from their inputs alone are run as calls of their own: the frame
\* holds the inputs when the call begins and the locals when it has returned.
IMAGE_LAYOUT_UNDEFINED                        == 0
IMAGE_LAYOUT_COLOR_ATTACHMENT_OPTIMAL         == 2
IMAGE_LAYOUT_DEPTH_STENCIL_ATTACHMENT_OPTIMAL == 3
IMAGE_LAYOUT_SHADER_READ_ONLY_OPTIMAL         == 5
IMAGE_LAYOUT_TRANSFER_SRC_OPTIMAL             == 6
IMAGE_LAYOUT_TRANSFER_DST_OPTIMAL             == 7
IMAGE_LAYOUT_PREINITIALIZED                   == 8
IMAGE_LAYOUT_PRESENT_SRC_KHR                  == 1000001002
ACCESS_SHADER_READ_BIT                    == 32
ACCESS_COLOR_ATTACHMENT_WRITE_BIT         == 256
ACCESS_DEPTH_STENCIL_ATTACHMENT_WRITE_BIT == 1024
ACCESS_TRANSFER_READ_BIT                  == 2048
ACCESS_TRANSFER_WRITE_BIT                 == 4096
ACCESS_HOST_WRITE_BIT                     == 16384

\* Every layout of the core enumeration (1 is GENERAL, 4 is
\* DEPTH_STENCIL_READ_ONLY_OPTIMAL) and the present layout.
ImageLayouts == (0..8) \cup {IMAGE_LAYOUT_PRESENT_SRC_KHR}

\* a | b on Python ints that are not negative.
RECURSIVE BitOr(_, _)
BitOr(a, b) ==
    IF a = 0 THEN b
    ELSE IF b = 0 THEN a
    ELSE (IF a % 2 = 1 \/ b % 2 = 1 THEN 1 ELSE 0) + 2 * BitOr(a \div 2, b \div 2)

\* The dictionary of lines 678-683: layouts to access masks.
old_map ==
    (IMAGE_LAYOUT_PREINITIALIZED :> BitOr(ACCESS_HOST_WRITE_BIT, ACCESS_TRANSFER_WRITE_BIT))
    @@ (IMAGE_LAYOUT_DEPTH_STENCIL_ATTACHMENT_OPTIMAL :> ACCESS_DEPTH_STENCIL_ATTACHMENT_WRITE_BIT)
    @@ (IMAGE_LAYOUT_TRANSFER_SRC_OPTIMAL :> ACCESS_TRANSFER_READ_BIT)
    @@ (IMAGE_LAYOUT_SHADER_READ_ONLY_OPTIMAL :> ACCESS_SHADER_READ_BIT)

old_map_values == {old_map[k] : k \in DOMAIN old_map}

\* Lines 684-687: the test looks the old layout up among the values of the
\* dictionary; a layout found there and missing among the keys is a KeyError.
src_access_mask_raises(old_layout) ==
    old_layout \in old_map_values /\ old_layout \notin DOMAIN old_map

src_access_mask(old_layout) ==
    IF old_layout \in old_map_values /\ old_layout \in DOMAIN old_map
    THEN old_map[old_layout] ELSE 0

\* Lines 689-706: the masks of the barrier after the adjustments for the new
\* layout, from the source mask of line 685 or 687.
barrier_masks(src, new_layout) ==
    CASE new_layout = IMAGE_LAYOUT_TRANSFER_DST_OPTIMAL ->
            [src |-> src, dst |-> ACCESS_TRANSFER_WRITE_BIT]
      [] new_layout = IMAGE_LAYOUT_TRANSFER_SRC_OPTIMAL ->
            [src |-> BitOr(src, ACCESS_TRANSFER_READ_BIT), dst |-> ACCESS_TRANSFER_READ_BIT]
      [] new_layout = IMAGE_LAYOUT_COLOR_ATTACHMENT_OPTIMAL ->
            [src |-> ACCESS_TRANSFER_READ_BIT, dst |-> ACCESS_COLOR_ATTACHMENT_WRITE_BIT]
      [] new_layout = IMAGE_LAYOUT_DEPTH_STENCIL_ATTACHMENT_OPTIMAL ->
            [src |-> src, dst |-> BitOr(0, ACCESS_DEPTH_STENCIL_ATTACHMENT_WRITE_BIT)]
      [] new_layout = IMAGE_LAYOUT_SHADER_READ_ONLY_OPTIMAL ->
            [src |-> BitOr(ACCESS_HOST_WRITE_BIT, ACCESS_TRANSFER_WRITE_BIT),
             dst |-> ACCESS_SHADER_READ_BIT]
      [] OTHER -> [src |-> src, dst |-> 0]

\* The calls: the outputs of the queries of Swapchain.create (the width of
\* cap.current_extent, the window's width, the format count, which is 1 or
\* more where formats[0] is read, and the first format), and the two layouts
\* set_image_layout is given.
Calls ==
    [fn : {"Swapchain.create"}, width : SurfaceWidths, dimensions : WindowWidths,
     format_count : 1..MaxFormats, format : SurfaceFormats,
     swapchain_extent : {0}, color_format : {0}]
    \cup
    [fn : {"set_image_layout"}, old_layout : ImageLayouts, new_layout : ImageLayouts,
     src_access_mask : {0}, barrier : {[src |-> 0, dst |-> 0]}]

CallInit == pc = "call" /\ frame \in Calls /\ Unconstructed

callUnchanged == <<ctx, faults, ignored, appVars, coreVars, setupVars, swapchain,
                   liveSwapchains, old_swapchain, req_image_count, images, imgLayout,
                   views, fbVars, cmdVars, semVars, triVars, uniform, descVars,
                   pipeVars, taskVars, envVars>>

\* Swapchain.create, lines 102-147.
Swapchain_create_locals ==
    /\ pc = "call" /\ frame.fn = "Swapchain.create"
    /\ frame' = [frame EXCEPT
            !.swapchain_extent = swapchain_extent(c_uint_value(frame.width),
                                                  frame.dimensions),
            !.color_format = color_format(frame.format_count, frame.format)]
    /\ pc' = "returned"
    /\ UNCHANGED callUnchanged

\* set_image_layout, lines 661-716.
set_image_layout ==
    /\ pc = "call" /\ frame.fn = "set_image_layout"
    /\ IF src_access_mask_raises(frame.old_layout)
       THEN pc' = "raised" /\ UNCHANGED frame
       ELSE /\ pc' = "returned"
            /\ frame' = [frame EXCEPT
                    !.src_access_mask = src_access_mask(frame.old_layout),
                    !.barrier = barrier_masks(src_access_mask(frame.old_layout),
                                              frame.new_layout)]
    /\ UNCHANGED callUnchanged

CallNext == Swapchain_create_locals \/ set_image_layout

CallSpec == CallInit /\ [][CallNext]_vars

\* C15: when the format list has exactly one entry and that entry is
\* FORMAT_UNDEFINED the colour format is FORMAT_B8G8R8A8_UNORM, otherwise it is
\* the format of the first entry.
C15_ColourFormat ==
    (pc = "returned" /\ frame.fn = "Swapchain.create") =>
        frame.color_format =
            IF frame.format_count = 1 /\ frame.format = FORMAT_UNDEFINED
            THEN FORMAT_B8G8R8A8_UNORM ELSE frame.format

\* C16: when the surface reports the all-ones width of an undefined extent the
\* swapchain takes the width of the window, otherwise the width the surface
\* reports.
C16_SwapchainExtent ==
    (pc = "returned" /\ frame.fn = "Swapchain.create") =>
        frame.swapchain_extent =
            IF frame.width = c_uint_value(-1) THEN frame.dimensions ELSE frame.width

\* C17: set_image_layout never raises, and the source access mask it derives
\* from the old layout is HOST_WRITE|TRANSFER_WRITE for PREINITIALIZED,
\* DEPTH_STENCIL_ATTACHMENT_WRITE for DEPTH_STENCIL_ATTACHMENT_OPTIMAL,
\* TRANSFER_READ for TRANSFER_SRC_OPTIMAL, SHADER_READ for
\* SHADER_READ_ONLY_OPTIMAL and 0 for every other layout.
C17_SourceAccessMask ==
    (pc # "call" /\ frame.fn = "set_image_layout") =>
        /\ pc = "returned"
        /\ frame.src_access_mask =
             CASE frame.old_layout = IMAGE_LAYOUT_PREINITIALIZED ->
                      ACCESS_HOST_WRITE_BIT + ACCESS_TRANSFER_WRITE_BIT
               [] frame.old_layout = IMAGE_LAYOUT_DEPTH_STENCIL_ATTACHMENT_OPTIMAL ->
                      ACCESS_DEPTH_STENCIL_ATTACHMENT_WRITE_BIT
               [] frame.old_layout = IMAGE_LAYOUT_TRANSFER_SRC_OPTIMAL ->
                      ACCESS_TRANSFER_READ_BIT
               [] frame.old_layout = IMAGE_LAYOUT_SHADER_READ_ONLY_OPTIMAL ->
                      ACCESS_SHADER_READ_BIT
               [] OTHER -> 0
====
